---- MODULE Spec2Model ----
(***************************************************************************)
(* A model of scraper.py: the RegAlert PubMed pipeline.  One run of the    *)
(* __main__ block is search -> summary -> append -> reconcile -> count,    *)
(* against a SQLite table that persists from one run to the next.          *)
(*                                                                         *)
(* The upstream service and the storage layer are the environment: every   *)
(* HTTP call either returns a JSON body drawn from a small set or raises   *)
(* requests.exceptions.RequestException, and every storage call either     *)
(* commits or raises.  A raising to_sql / DELETE leaves the table as it    *)
(* was, since both run inside one transaction that is never committed.     *)
(***************************************************************************)
EXTENDS Integers, Sequences, FiniteSets, TLC

VARIABLES
    table,          \* rows of pubmed_articles, each with its SQLite rowid
    pc,             \* position of the current run in the __main__ block
    article_ids,    \* __main__: article_ids
    summary_data,   \* fetch_details_by_id: the parsed E-Summary body
    data_df,        \* __main__: data_df, a sequence of records
    calls,          \* history: external calls attempted in this run, in order
    faults,         \* history: calls of this run that raised and were caught
    runs,           \* number of the current run
    prev_fetched,   \* history: identifiers fetched by the previous run
    prev_clean,     \* history: the previous run finished with no fault
    table0          \* history: the table when this run started

vars == <<table, pc, article_ids, summary_data, data_df, calls, faults, runs,
          prev_fetched, prev_clean, table0>>

----------------------------------------------------------------------------
(* Bounds and input sets *)

MaxRuns == 3
MaxIds == 2

IDs == {"111", "222"}

\* A key that a JSON object does not hold.
Absent == "<absent>"

\* Article-detail objects of an E-Summary body.
FullDetail == [title |-> "T1", fulljournalname |-> "J1", sortdate |-> "2023/01/15 00:00"]
BareDetail == [title |-> Absent, fulljournalname |-> Absent, sortdate |-> Absent]

Details ==
    { FullDetail, BareDetail,
      [title |-> "T2", fulljournalname |-> Absent, sortdate |-> "2024/02/29"],
      [title |-> Absent, fulljournalname |-> "J2", sortdate |-> "2023/01"] }

SeqsUpTo(S, n) == UNION { [1..k -> S] : k \in 0..n }

Range(f) == { f[i] : i \in DOMAIN f }

\* The 'result' object of an E-Summary body: uid -> detail, for some of the
\* listed uids (entries under other keys are never read).
ResultMaps(uids, D) == UNION { [S -> D] : S \in SUBSET Range(uids) }

Bodies(lists, D) == UNION { [uids : {u}, result : ResultMaps(u, D)] : u \in lists }

\* Inputs of fetch_details_by_id taken alone: every 'idlist' and every
\* 'uids' of up to MaxIds identifiers, every detail object.
IdLists == SeqsUpTo(IDs, MaxIds)
SummaryBodies == Bodies(IdLists, Details)

\* What the upstream answers to the runs of the whole pipeline.
SearchAnswers == { <<>>, <<"111">>, <<"111", "222">> }
SummaryAnswers ==
    Bodies({ <<>>, <<"111">>, <<"222">>, <<"111", "222">>, <<"222", "111">>,
             <<"111", "111">> },
           { FullDetail, BareDetail })

NoBody == [uids |-> <<>>, result |-> <<>>]

----------------------------------------------------------------------------
(* fetch_details_by_id: flattening *)

DateWidth == 10

Min(a, b) == IF a < b THEN a ELSE b

\* s[:n]
Prefix(s, n) == SubSeq(s, 1, Min(Len(s), n))

\* article.get(key, 'N/A')
Get(article, key) == IF article[key] = Absent THEN "N/A" ELSE article[key]

\* Mutation: the slice is lost.
PublicationDateUncut(article) == Get(article, "sortdate")

PublicationDate(article) == Prefix(Get(article, "sortdate"), DateWidth)

SourceURL(uid) == "https://pubmed.ncbi.nlm.nih.gov/" \o uid \o "/"

Record(uid, article) ==
    [PMID |-> uid,
     Title |-> Get(article, "title"),
     Journal |-> Get(article, "fulljournalname"),
     Publication_Date |-> PublicationDate(article),
     Source_URL |-> SourceURL(uid)]

\* Mutation: the records come out in the reverse of the listed order.
RecordsReversed(uids, result) ==
    [i \in 1..Len(uids) |->
        Record(uids[Len(uids) + 1 - i], result[uids[Len(uids) + 1 - i]])]

\* The loop "for uid in uids: records.append({...})".
Records(uids, result) == [i \in 1..Len(uids) |-> Record(uids[i], result[uids[i]])]

\* summary_data['result'][uid] raises KeyError for some listed uid.
RaisesKeyError(body) == \E i \in 1..Len(body.uids) : body.uids[i] \notin DOMAIN body.result

----------------------------------------------------------------------------
(* The storage layer *)

PMIDs(t) == { r.PMID : r \in t }

SetMax(S) == CHOOSE x \in S : \A y \in S : y <= x
SetMin(S) == CHOOSE x \in S : \A y \in S : x <= y

\* SQLite gives a new row the rowid max(rowid) + 1.
MaxRowid(t) == IF t = {} THEN 0 ELSE SetMax({ r.rowid : r \in t })

\* Mutation: if_exists='replace' drops the table before the insert.
ToSqlReplace(t, df) ==
    { [rowid |-> i,
       PMID |-> df[i].PMID,
       Title |-> df[i].Title,
       Journal |-> df[i].Journal,
       Publication_Date |-> df[i].Publication_Date,
       Source_URL |-> df[i].Source_URL] : i \in 1..Len(df) }

\* df.to_sql(TABLE_NAME, if_exists='append', index=False)
ToSql(t, df) ==
    t \cup { [rowid |-> MaxRowid(t) + i,
              PMID |-> df[i].PMID,
              Title |-> df[i].Title,
              Journal |-> df[i].Journal,
              Publication_Date |-> df[i].Publication_Date,
              Source_URL |-> df[i].Source_URL] : i \in 1..Len(df) }

\* Mutation: MAX(rowid) keeps the latest row of each PMID.
MaxRowids(t) == { SetMax({ r.rowid : r \in { x \in t : x.PMID = p } }) : p \in PMIDs(t) }

\* SELECT MIN(rowid) FROM pubmed_articles GROUP BY PMID
MinRowids(t) == { SetMin({ r.rowid : r \in { x \in t : x.PMID = p } }) : p \in PMIDs(t) }

\* Mutation: GROUP BY Title keeps one row per title, not per PMID.
CleanupSqlByTitle(t) ==
    { r \in t :
        r.rowid \in { SetMin({ x.rowid : x \in { y \in t : y.Title = ti } }) :
                        ti \in { z.Title : z \in t } } }

\* DELETE FROM pubmed_articles WHERE rowid NOT IN (...)
CleanupSql(t) == { r \in t : r.rowid \in MinRowids(t) }

\* SELECT COUNT(DISTINCT PMID) FROM pubmed_articles
CountSql(t) == Cardinality(PMIDs(t))

----------------------------------------------------------------------------
(* The __main__ block, one action per outcome of each step *)

history == <<runs, prev_fetched, prev_clean, table0>>

Init ==
    /\ table = {}
    /\ pc = "search"
    /\ article_ids = <<>>
    /\ summary_data = NoBody
    /\ data_df = <<>>
    /\ calls = <<>>
    /\ faults = {}
    /\ runs = 1
    /\ prev_fetched = {}
    /\ prev_clean = FALSE
    /\ table0 = {}

\* get_pubmed_ids returns data['esearchresult']['idlist'].
GetPubmedIdsOk ==
    /\ pc = "search"
    /\ \E ids \in SearchAnswers : article_ids' = ids
    /\ calls' = Append(calls, "search")
    /\ pc' = "fetch"
    /\ UNCHANGED <<table, summary_data, data_df, faults, history>>

\* Mutation: a failed search is attempted a second time.
GetPubmedIdsRetried ==
    /\ pc = "search"
    /\ article_ids' = <<>>
    /\ calls' = Append(calls, "search")
    /\ faults' = faults \cup {"search"}
    /\ pc' = IF "search" \in faults THEN "fetch" ELSE "search"
    /\ UNCHANGED <<table, summary_data, data_df, history>>

\* requests.get / raise_for_status raises: logged, returns [].
GetPubmedIdsRequestException ==
    /\ pc = "search"
    /\ article_ids' = <<>>
    /\ calls' = Append(calls, "search")
    /\ faults' = faults \cup {"search"}
    /\ pc' = "fetch"
    /\ UNCHANGED <<table, summary_data, data_df, history>>

\* The body has no 'esearchresult' or no 'idlist': KeyError is not a
\* RequestException, so it leaves get_pubmed_ids and ends the process.
GetPubmedIdsKeyError ==
    /\ pc = "search"
    /\ calls' = Append(calls, "search")
    /\ pc' = "crashed"
    /\ UNCHANGED <<table, article_ids, summary_data, data_df, faults, history>>

\* Mutation: no guard, the summary endpoint is asked about no identifier.
FetchUnguarded ==
    /\ pc = "fetch"
    /\ article_ids = <<>>
    /\ calls' = Append(calls, "summary")
    /\ pc' = "save"
    /\ UNCHANGED <<table, article_ids, summary_data, data_df, faults, history>>

\* "if article_ids:" is false, data_df stays pd.DataFrame().
FetchSkipped ==
    /\ pc = "fetch"
    /\ article_ids = <<>>
    /\ pc' = "save"
    /\ UNCHANGED <<table, article_ids, summary_data, data_df, calls, faults, history>>

FetchDetailsOk(answers) ==
    /\ pc = "fetch"
    /\ article_ids # <<>>
    /\ \E body \in answers :
          /\ ~RaisesKeyError(body)
          /\ summary_data' = body
          /\ data_df' = Records(body.uids, body.result)
    /\ calls' = Append(calls, "summary")
    /\ pc' = "save"
    /\ UNCHANGED <<table, article_ids, faults, history>>

FetchDetailsRequestException ==
    /\ pc = "fetch"
    /\ article_ids # <<>>
    /\ data_df' = <<>>
    /\ calls' = Append(calls, "summary")
    /\ faults' = faults \cup {"summary"}
    /\ pc' = "save"
    /\ UNCHANGED <<table, article_ids, summary_data, history>>

\* A uid of 'uids' has no entry in 'result': KeyError ends the process.
FetchDetailsKeyError(answers) ==
    /\ pc = "fetch"
    /\ article_ids # <<>>
    /\ \E body \in answers :
          /\ RaisesKeyError(body)
          /\ summary_data' = body
    /\ calls' = Append(calls, "summary")
    /\ pc' = "crashed"
    /\ UNCHANGED <<table, article_ids, data_df, faults, history>>

\* "if not data_df.empty:" is false.
SaveSkipped ==
    /\ pc = "save"
    /\ data_df = <<>>
    /\ pc' = "count"
    /\ UNCHANGED <<table, article_ids, summary_data, data_df, calls, faults, history>>

SaveToDatabaseOk ==
    /\ pc = "save"
    /\ data_df # <<>>
    /\ table' = ToSql(table, data_df)
    /\ calls' = Append(calls, "append")
    /\ pc' = "cleanup"
    /\ UNCHANGED <<article_ids, summary_data, data_df, faults, history>>

SaveToDatabaseException ==
    /\ pc = "save"
    /\ data_df # <<>>
    /\ calls' = Append(calls, "append")
    /\ faults' = faults \cup {"append"}
    /\ pc' = "cleanup"
    /\ UNCHANGED <<table, article_ids, summary_data, data_df, history>>

\* Mutation: connection.commit() is missing, the DELETE is rolled back.
CleanupDuplicatesUncommitted ==
    /\ pc = "cleanup"
    /\ calls' = Append(calls, "reconcile")
    /\ pc' = "count"
    /\ UNCHANGED <<table, article_ids, summary_data, data_df, faults, history>>

\* The DELETE runs and is committed.
CleanupDuplicatesOk ==
    /\ pc = "cleanup"
    /\ table' = CleanupSql(table)
    /\ calls' = Append(calls, "reconcile")
    /\ pc' = "count"
    /\ UNCHANGED <<article_ids, summary_data, data_df, faults, history>>

\* Mutation: append and cleanup share a transaction, the fault undoes both.
CleanupDuplicatesRollsBackAppend ==
    /\ pc = "cleanup"
    /\ table' = table0
    /\ calls' = Append(calls, "reconcile")
    /\ faults' = faults \cup {"reconcile"}
    /\ pc' = "count"
    /\ UNCHANGED <<article_ids, summary_data, data_df, history>>

\* The DELETE raises: caught and logged, nothing is committed.
CleanupDuplicatesException ==
    /\ pc = "cleanup"
    /\ calls' = Append(calls, "reconcile")
    /\ faults' = faults \cup {"reconcile"}
    /\ pc' = "count"
    /\ UNCHANGED <<table, article_ids, summary_data, data_df, history>>

CountRecordsOk ==
    /\ pc = "count"
    /\ calls' = Append(calls, "count")
    /\ pc' = "done"
    /\ UNCHANGED <<table, article_ids, summary_data, data_df, faults, history>>

CountRecordsException ==
    /\ pc = "count"
    /\ calls' = Append(calls, "count")
    /\ faults' = faults \cup {"count"}
    /\ pc' = "done"
    /\ UNCHANGED <<table, article_ids, summary_data, data_df, history>>

\* The scheduler starts the process again: fresh locals, same database file.
NextRun ==
    /\ pc \in {"done", "crashed"}
    /\ runs < MaxRuns
    /\ runs' = runs + 1
    /\ prev_fetched' = { data_df[i].PMID : i \in 1..Len(data_df) }
    /\ prev_clean' = (faults = {})
    /\ table0' = table
    /\ pc' = "search"
    /\ article_ids' = <<>>
    /\ summary_data' = NoBody
    /\ data_df' = <<>>
    /\ calls' = <<>>
    /\ faults' = {}
    /\ UNCHANGED table

Next ==
    \/ GetPubmedIdsOk
    \/ GetPubmedIdsRequestException
    \/ GetPubmedIdsKeyError
    \/ FetchSkipped
    \/ FetchDetailsOk(SummaryAnswers)
    \/ FetchDetailsRequestException
    \/ FetchDetailsKeyError(SummaryAnswers)
    \/ SaveSkipped
    \/ SaveToDatabaseOk
    \/ SaveToDatabaseException
    \/ CleanupDuplicatesOk
    \/ CleanupDuplicatesException
    \/ CountRecordsOk
    \/ CountRecordsException
    \/ NextRun

Spec == Init /\ [][Next]_vars

----------------------------------------------------------------------------
(* fetch_details_by_id taken alone, on every id_list and every body *)

InitFetch ==
    /\ table = {}
    /\ pc = "fetch"
    /\ article_ids \in IdLists
    /\ summary_data = NoBody
    /\ data_df = <<>>
    /\ calls = <<"search">>
    /\ faults = {}
    /\ runs = 1
    /\ prev_fetched = {}
    /\ prev_clean = FALSE
    /\ table0 = {}

NextFetch ==
    \/ FetchSkipped
    \/ FetchDetailsOk(SummaryBodies)
    \/ FetchDetailsRequestException
    \/ FetchDetailsKeyError(SummaryBodies)

SpecFetch == InitFetch /\ [][NextFetch]_vars

----------------------------------------------------------------------------
(* Properties *)

NoDuplicatePMID(t) == \A r \in t : \A q \in t : r.PMID = q.PMID => r = q

StorageCalls == {"append", "reconcile", "count"}

Attempted(c) == c \in Range(calls)

ReconcileCommitted == Attempted("reconcile") /\ "reconcile" \notin faults

FetchedPMIDs == { data_df[i].PMID : i \in 1..Len(data_df) }

\* C1, as claimed: at the end of every run in which no storage operation
\* faulted, no two rows of the table share a PMID.
C1_NoDuplicatesAfterFaultFreeRun ==
    (pc = "done" /\ faults \cap StorageCalls = {}) => NoDuplicatePMID(table)

\* C1, amended: at the end of every run no two rows share a PMID if the
\* reconcile step of that run ran and committed, or if the run started from a
\* table without duplicates and none of its storage operations faulted.
C1_NoDuplicatesAfterReconcile ==
    pc = "done" =>
        /\ ReconcileCommitted => NoDuplicatePMID(table)
        /\ (NoDuplicatePMID(table0) /\ faults \cap StorageCalls = {})
              => NoDuplicatePMID(table)

\* A run appended rows whose PMID was already stored and its reconcile step
\* removed them again.
C1_Witness ==
    /\ pc = "done"
    /\ ReconcileCommitted
    /\ "append" \notin faults
    /\ data_df # <<>>
    /\ Cardinality(table) < Cardinality(table0) + Len(data_df)

\* C2, as claimed: nothing is fatal, no run ends in an uncaught exception.
C2_NothingIsFatal == pc # "crashed"

\* C3, as claimed: a non-empty id_list gets back one record per input
\* identifier, in input order.
C3_OneRecordPerInputId ==
    (pc = "save" /\ article_ids # <<>>) =>
        /\ Len(data_df) = Len(article_ids)
        /\ \A i \in 1..Len(data_df) : data_df[i].PMID = article_ids[i]

\* C3, amended: when the summary request succeeds, a non-empty id_list gets
\* back one record per uid of the response's 'uids', in the listed order, and
\* so one per input identifier in input order when 'uids' repeats the input;
\* when the request fails the batch is empty.
C3_OneRecordPerListedUid ==
    (pc = "save" /\ article_ids # <<>>) =>
        IF "summary" \in faults
        THEN data_df = <<>>
        ELSE /\ Len(data_df) = Len(summary_data.uids)
             /\ \A i \in 1..Len(data_df) : data_df[i].PMID = summary_data.uids[i]
             /\ summary_data.uids = article_ids =>
                   \A i \in 1..Len(article_ids) : data_df[i].PMID = article_ids[i]

\* Two records came back in the listed order, which is not the input order.
C3_Witness ==
    /\ pc = "save"
    /\ "summary" \notin faults
    /\ article_ids = <<"111", "222">>
    /\ Len(data_df) = 2
    /\ data_df[1].PMID = "222"
    /\ data_df[2].PMID = "111"

\* C4: when a run without fault is followed by a run without fault that
\* fetches the same identifiers (as it does when the upstream result set is
\* unchanged), the second run leaves the row count and the distinct
\* identifier count where the first left them.
C4_SecondRunChangesNoCount ==
    (pc = "done" /\ runs > 1 /\ prev_clean /\ faults = {}
        /\ FetchedPMIDs = prev_fetched) =>
        /\ Cardinality(table) = Cardinality(table0)
        /\ CountSql(table) = CountSql(table0)

\* Identifiers 111 and 222 were fetched and appended by two runs in a row and
\* the table holds 2 rows.
C4_Witness ==
    /\ pc = "done"
    /\ runs > 1
    /\ prev_clean
    /\ faults = {}
    /\ prev_fetched = {"111", "222"}
    /\ Len(data_df) = 2
    /\ FetchedPMIDs = {"111", "222"}
    /\ Attempted("append")
    /\ Cardinality(table) = 2

\* What a committed cleanup leaves of table t.
KeepsEarliestOfEach(t, kept) ==
    /\ kept \subseteq t
    /\ \A p \in PMIDs(t) :
          /\ Cardinality({ r \in kept : r.PMID = p }) = 1
          /\ \A r \in kept : \A q \in t :
                (r.PMID = p /\ q.PMID = p) => r.rowid <= q.rowid

\* C5: a committed cleanup_duplicates keeps, of every PMID in the table, the
\* row of least rowid and no other row; it changes nothing in a table without
\* duplicates, and a second cleanup of its result changes nothing.
C5_CleanupKeepsEarliest ==
    [][(pc = "cleanup" /\ pc' = "count" /\ "reconcile" \notin faults') =>
          /\ KeepsEarliestOfEach(table, table')
          /\ NoDuplicatePMID(table) => table' = table
          /\ CleanupSql(table') = table']_vars

\* A committed cleanup has removed a row.
C5_Witness ==
    /\ pc = "count"
    /\ ReconcileCommitted
    /\ "append" \notin faults
    /\ Cardinality(table) < Cardinality(table0) + Len(data_df)

\* C6: once the identifier list of a run is empty (the search matched nothing
\* or failed soft), the run asks the summary endpoint nothing, appends and
\* cleans up nothing, leaves the table as the run found it, does not end in
\* an exception, and ends having made exactly the search and the count.
C6_EmptyListSkipsFetchAndSave ==
    (pc \in {"save", "count", "done"} /\ article_ids = <<>>) =>
        /\ ~Attempted("summary")
        /\ ~Attempted("append")
        /\ ~Attempted("reconcile")
        /\ data_df = <<>>
        /\ table = table0
        /\ pc = "done" => calls = <<"search", "count">>

\* A run whose search failed soft has ended, over a table that holds rows.
C6_Witness ==
    /\ pc = "done"
    /\ article_ids = <<>>
    /\ "search" \in faults
    /\ Attempted("count")
    /\ table # {}

CallOrder == <<"search", "summary", "append", "reconcile", "count">>

Rank(c) == CHOOSE k \in 1..Len(CallOrder) : CallOrder[k] = c

\* C7, as claimed: every run attempts each of the five external calls
\* exactly once, in the order search, summary, append, reconcile, count.
C7_EveryCallExactlyOnce == pc = "done" => calls = CallOrder

\* C7, amended: a run attempts each external call at most once, never again
\* after a failure, and in the order search, summary, append, reconcile,
\* count; the search is attempted in every run and the count in every run
\* that reaches its end, the summary request only after a search that
\* returned identifiers, append and reconcile only after a summary that
\* produced records.
C7_EveryCallAtMostOnceInOrder ==
    /\ \A i \in 1..Len(calls) : \A j \in 1..Len(calls) :
          i < j => Rank(calls[i]) < Rank(calls[j])
    /\ \A f \in faults : Attempted(f)
    /\ pc # "search" => Attempted("search")
    /\ pc = "done" => Attempted("count")
    /\ pc \in {"save", "cleanup", "count", "done"} =>
          (Attempted("summary") <=> article_ids # <<>>)
    /\ pc \in {"cleanup", "count", "done"} =>
          (Attempted("append") <=> data_df # <<>>)
    /\ pc \in {"count", "done"} =>
          (Attempted("reconcile") <=> data_df # <<>>)

\* A run made all five calls, three of them failed, none was made again.
C7_Witness ==
    /\ pc = "done"
    /\ calls = CallOrder
    /\ faults = {"append", "reconcile", "count"}

\* The five columns of a row.
RowData(r) ==
    [PMID |-> r.PMID, Title |-> r.Title, Journal |-> r.Journal,
     Publication_Date |-> r.Publication_Date, Source_URL |-> r.Source_URL]

\* C8: after a fault in the reconcile step the run is at or past the count,
\* and the table holds what it held after the append: every row the run
\* started with and, when the append went through, one new row for every
\* record of the batch.
C8_ReconcileFaultKeepsAppend ==
    "reconcile" \in faults =>
        /\ pc \in {"count", "done"}
        /\ table0 \subseteq table
        /\ IF "append" \in faults
           THEN table = table0
           ELSE /\ Cardinality(table \ table0) = Len(data_df)
                /\ \A i \in 1..Len(data_df) :
                      \E r \in table \ table0 : RowData(r) = data_df[i]

\* The reconcile step of a run failed after its append had added a row with
\* a PMID the table already held; the run made the count.
C8_Witness ==
    /\ pc = "done"
    /\ "reconcile" \in faults
    /\ "append" \notin faults
    /\ Attempted("count")
    /\ table0 # {}
    /\ ~NoDuplicatePMID(table)

\* The value 'sortdate' stands for: its own, or the sentinel when absent.
SortDateOrSentinel(article) ==
    IF article.sortdate = Absent THEN "N/A" ELSE article.sortdate

\* C9: the Publication_Date of every record is the sort-date of its detail
\* object, or "N/A" when that has none, cut to its first 10 characters: whole
\* when it has at most 10, "N/A" when the sort-date is absent.
C9_PublicationDateIsPrefix ==
    (pc = "save" /\ "summary" \notin faults) =>
        \A i \in 1..Len(data_df) :
            LET s == SortDateOrSentinel(summary_data.result[summary_data.uids[i]])
                d == data_df[i].Publication_Date
            IN  /\ Len(s) <= 10 => d = s
                /\ Len(s) > 10 => (Len(d) = 10 /\ d = SubSeq(s, 1, 10))
                /\ summary_data.result[summary_data.uids[i]].sortdate = Absent
                      => d = "N/A"

\* One batch holds a record cut from a longer sort-date and a record of a
\* detail object without sort-date.
C9_Witness ==
    /\ pc = "save"
    /\ Len(data_df) = 2
    /\ summary_data.result[summary_data.uids[1]].sortdate = "2023/01/15 00:00"
    /\ data_df[1].Publication_Date = "2023/01/15"
    /\ summary_data.result[summary_data.uids[2]].sortdate = Absent
    /\ data_df[2].Publication_Date = "N/A"

\* The row of PMID r.PMID that a cleanup of t would keep.
IsEarliest(r, t) == r \in t /\ \A q \in t : q.PMID = r.PMID => r.rowid <= q.rowid

\* C10: no step removes or changes the earliest row of a PMID, whatever
\* fails and whatever is fetched again, so a PMID in the table at the end of
\* a run is there at the end of every later run, with the row first inserted
\* for it, and the number of distinct PMIDs never goes down.
C10_EarliestRowIsKept ==
    [][/\ \A r \in table : IsEarliest(r, table) => IsEarliest(r, table')
       /\ CountSql(table) <= CountSql(table')]_vars

\* A later run fetched a stored PMID again with another title, appended and
\* reconciled, and the table holds the row the run started with.
C10_Witness ==
    /\ pc = "done"
    /\ runs > 1
    /\ faults = {}
    /\ Attempted("reconcile")
    /\ \E i \in 1..Len(data_df) : \E r \in table :
          /\ r \in table0
          /\ r.PMID = data_df[i].PMID
          /\ r.Title # data_df[i].Title

====
